---- MODULE Spec2Model ----
(***************************************************************************)
(* MentorAI: the LangGraph orchestration of the five agents (graph.py) and *)
(* the parsing / evaluation code of the agents (agents/*.py).              *)
(*                                                                         *)
(* Texts that the program only passes along (query, topic, explanation)    *)
(* are string atoms; texts the program computes on are sequences: answer   *)
(* strings are sequences of characters (str.strip, ==), the context and    *)
(* the fallback question are sequences of the pieces they are built from.  *)
(* A Python dict is a function on its keys; a missing key is a key outside *)
(* its DOMAIN.  A call returns Return(v) or raises Raise(e).               *)
(* The query texts QuizAgent.execute searches for "<N>-question" are       *)
(* sequences of characters.  io records, for the call in progress, what    *)
(* each stage asked of the TextGenerationClient or the vector index and    *)
(* what it got back.                                                       *)
(***************************************************************************)
EXTENDS Integers, Sequences, FiniteSets, TLC

VARIABLES
    vectorstore,   \* RetrievalAgent.vectorstore: "None" or "loaded"
    pc,            \* "idle", the graph node about to run, "end" or "raised"
    state,         \* the AgentState of the call in progress (or NoState)
    visited,       \* the nodes the graph has invoked in this call, in order
    err,           \* the exception that left process_query, or "none"
    calls,         \* process_query calls started on this instance
    call,          \* arguments of the call in progress (process_query or a direct call)
    result,        \* what the direct call returned or raised
    io,            \* the exchanges of this call with the external services, in order
    session        \* st.session_state of the Streamlit application (app.py)

vars == <<vectorstore, pc, state, visited, err, calls, call, result, io, session>>

---------------------------------------------------------------------------
(* Bounds of the model *)

MaxStrLen == 3      \* answer strings have at most this many characters
MaxQuizLen == 2     \* questions of a quiz handed to evaluate_quiz_directly
MaxAnswers == 2     \* entries of a student_answers dict handed to it
MaxKey == 2         \* largest question index used as a key of that dict
GraphMaxQuizLen == 1    \* questions of a quiz the generator replies with
GraphMaxAnswers == 1    \* entries of the student_answers of process_query
GraphMaxKey == 1        \* largest key of the student_answers of process_query
MaxCalls == 2       \* process_query calls on one instance
NumDocs == 2        \* documents the vector index can return
MaxChunks == 4      \* pieces a query text handed to QuizAgent.execute is made of

(* Program constants *)

TOP_K == 3
FALLBACK_SCORE == 50
MCQ_CORRECT_SCORE == 100
MCQ_WRONG_SCORE == 0

---------------------------------------------------------------------------
(* Python values *)

PyNone == [py |-> "None"]
PyList(s) == [py |-> "list", items |-> s]

Return(v) == [ok |-> TRUE, value |-> v]
Raise(e) == [ok |-> FALSE, error |-> e]

SeqsUpTo(S, n) == UNION {[1..k -> S] : k \in 0..n}

RECURSIVE SumSeq(_)
SumSeq(s) == IF s = <<>> THEN 0 ELSE Head(s) + SumSeq(Tail(s))

(* str.strip(): leading and trailing whitespace removed *)
Whitespace == {" ", "\t"}
Alphabet == Whitespace \cup {"a", "A"}
Strings == SeqsUpTo(Alphabet, MaxStrLen)

RECURSIVE lstrip(_)
lstrip(s) == IF s # <<>> /\ Head(s) \in Whitespace THEN lstrip(Tail(s)) ELSE s

RECURSIVE rstrip(_)
rstrip(s) ==
    IF s # <<>> /\ s[Len(s)] \in Whitespace
    THEN rstrip(SubSeq(s, 1, Len(s) - 1))
    ELSE s

strip(s) == rstrip(lstrip(s))

---------------------------------------------------------------------------
(* Replies of the TextGenerationClient (response.content) and json.loads. *)
(* A reply is text json.loads rejects, JSON that is not an object (a      *)
(* number, a string, a list, null), or a JSON object; the content of the  *)
(* teaching reply is used as it is.  ClientError stands for a call of the *)
(* client that raises instead of answering.                               *)

TextReply == [tag |-> "text"]
NonObjectReply == [tag |-> "nonobject"]
ObjectReply(f) == [tag |-> "object", fields |-> f]
ContentReply(c) == [tag |-> "content", content |-> c]
ClientError == [tag |-> "error"]

(* chain.invoke(...): the response, or the exception of the client *)
llm_invoke(reply) ==
    IF reply.tag = "error" THEN Raise("APIError") ELSE Return(reply)

json_loads(reply) ==
    IF reply.tag = "text" THEN Raise("JSONDecodeError") ELSE Return(reply)

(* dict.get(key, default) and a dict literal with optional keys *)
Get(d, k, default) == IF k \in DOMAIN d THEN d[k] ELSE default
EmptyDict == [k \in {} |-> TRUE]
Opt(present, k, v) == IF present THEN k :> v ELSE EmptyDict

---------------------------------------------------------------------------
(* QueryAgent (agents/query_agent.py) *)

FallbackAnalysis_empty_topic(query) ==
    [intent |-> "concept", topic |-> <<>>, difficulty |-> "medium"]
FallbackAnalysis_no_intent(query) ==
    [intent |-> "", topic |-> query, difficulty |-> "medium"]
FallbackAnalysis(query) ==
    [intent |-> "concept", topic |-> query, difficulty |-> "medium"]

analyze_query_parse(query, response) ==
    LET parsed == json_loads(response) IN
    IF ~parsed.ok
    THEN Return(FallbackAnalysis(query))            \* except JSONDecodeError
    ELSE IF parsed.value.tag # "object"
    THEN Raise("TypeError")                         \* result['intent']
    ELSE IF {"intent", "topic", "difficulty"} \subseteq DOMAIN parsed.value.fields
    THEN Return(parsed.value.fields)
    ELSE Raise("KeyError")                          \* result['intent'] ...

(* the fallback returned although the client raised *)
analyze_query_catches_client_error(query, reply) ==
    LET response == llm_invoke(reply) IN
    IF ~response.ok THEN Return(FallbackAnalysis(query))
    ELSE analyze_query_parse(query, response.value)

analyze_query(query, reply) ==
    LET response == llm_invoke(reply) IN
    IF ~response.ok THEN response                   \* chain.invoke is outside the try
    ELSE analyze_query_parse(query, response.value)

QueryAgent_execute(st, reply) ==
    LET analysis == analyze_query(Get(st, "query", <<>>), reply) IN
    IF ~analysis.ok THEN analysis
    ELSE IF ~({"intent", "topic"} \subseteq DOMAIN analysis.value)
    THEN Raise("KeyError")
    ELSE Return([st EXCEPT
            !.intent = analysis.value["intent"],
            !.topic = analysis.value["topic"],
            !.difficulty = Get(analysis.value, "difficulty", "medium")])

---------------------------------------------------------------------------
(* RetrievalAgent (agents/retrieval_agent.py) *)

Passages == <<"p1", "p2", "p3", "p4">>
SEPARATOR == "\n\n---\n\n"
NO_CONTEXT == <<"No relevant context found.">>

(* vectorstore.similarity_search(query, k): the k best documents, fewer *)
(* when the index holds fewer, or an exception                          *)
SearchOutcomes(k) ==
    {Return([i \in 1..n |-> Passages[i]]) : n \in 0..(IF k < NumDocs THEN k ELSE NumDocs)}
        \cup {Raise("Exception")}

retrieve_context(store, query, search) ==
    IF store = "None" THEN <<>>
    ELSE IF search.ok THEN search.value
    ELSE <<>>                                       \* except Exception

RECURSIVE join(_, _)
join(sep, parts) ==
    IF parts = <<>> THEN <<>>
    ELSE IF Len(parts) = 1 THEN <<Head(parts)>>
    ELSE <<Head(parts), sep>> \o join(sep, Tail(parts))

(* state.get("topic", state.get("query", "")): the string handed to the search *)
search_query(st) == Get(st, "topic", Get(st, "query", <<>>))

(* the exception of the search leaves the stage *)
RetrievalAgent_execute_search_error_propagates(store, st, search) ==
    IF store # "None" /\ ~search.ok THEN search
    ELSE Return([st EXCEPT !.context =
            IF retrieve_context(store, search_query(st), search) # <<>>
            THEN join(SEPARATOR, retrieve_context(store, search_query(st), search))
            ELSE NO_CONTEXT])

(* the passages joined even when there are none *)
RetrievalAgent_execute_joins_always(store, st, search) ==
    Return([st EXCEPT !.context =
            join(SEPARATOR, retrieve_context(store, search_query(st), search))])

RetrievalAgent_execute(store, st, search) ==
    LET topic == search_query(st)
        contexts == retrieve_context(store, topic, search)
        combined_context ==
            IF contexts # <<>> THEN join(SEPARATOR, contexts) ELSE NO_CONTEXT
    IN Return([st EXCEPT !.context = combined_context])

---------------------------------------------------------------------------
(* TeachingAgent (agents/teaching_agent.py) *)

QUIZ_MODE_TEXT == <<"Quiz mode activated. Proceeding to quiz generation...">>

generate_explanation(query, context, intent, difficulty, reply) ==
    LET response == llm_invoke(reply) IN
    IF ~response.ok THEN response ELSE Return(response.value.content)

(* execute without the shortcut for intent quiz *)
TeachingAgent_execute_always_generates(st, reply) ==
    LET explanation ==
            generate_explanation(Get(st, "query", <<>>), Get(st, "context", <<>>),
                                 Get(st, "intent", "concept"),
                                 Get(st, "difficulty", "medium"), reply)
    IN IF explanation.ok
       THEN Return([st EXCEPT !.explanation = explanation.value])
       ELSE explanation

TeachingAgent_execute(st, reply) ==
    LET intent == Get(st, "intent", "concept") IN
    IF intent = "quiz"
    THEN Return([st EXCEPT !.explanation = QUIZ_MODE_TEXT])
    ELSE LET explanation ==
                 generate_explanation(Get(st, "query", <<>>), Get(st, "context", <<>>),
                                      intent, Get(st, "difficulty", "medium"), reply)
         IN IF explanation.ok
            THEN Return([st EXCEPT !.explanation = explanation.value])
            ELSE explanation

---------------------------------------------------------------------------
(* QuizAgent (agents/quiz_agent.py) *)

FallbackQuiz(topic) ==
    <<[question |-> <<"What are the key concepts in ">> \o topic \o <<"?">>,
       type |-> "short_answer",
       options |-> <<>>,
       correct_answer |-> <<"Based on the study material...">>,
       explanation |-> "This tests overall understanding."]>>

generate_quiz_parse(topic, response) ==
    LET quiz_data == json_loads(response) IN
    IF ~quiz_data.ok
    THEN Return(PyList(FallbackQuiz(topic)))        \* except JSONDecodeError
    ELSE IF quiz_data.value.tag # "object"
    THEN Raise("AttributeError")                    \* quiz_data.get
    ELSE LET questions == Get(quiz_data.value.fields, "questions", PyList(<<>>)) IN
         IF questions = PyNone
         THEN Raise("TypeError")                    \* len(questions)
         ELSE Return(questions)

generate_quiz(topic, context, difficulty, reply) ==
    LET response == llm_invoke(reply) IN
    IF ~response.ok THEN response                   \* chain.invoke is outside the try
    ELSE generate_quiz_parse(topic, response.value)

(* str.lower() on the characters the model uses *)
UpperToLower ==
    [c \in {"A", "Q", "U", "E", "S", "T", "I", "O", "N"} |->
        CASE c = "A" -> "a" [] c = "Q" -> "q" [] c = "U" -> "u" [] c = "E" -> "e"
          [] c = "S" -> "s" [] c = "T" -> "t" [] c = "I" -> "i" [] c = "O" -> "o"
          [] c = "N" -> "n"]
lower_not_applied(s) == s
lower(s) == [i \in 1..Len(s) |-> IF s[i] \in DOMAIN UpperToLower THEN UpperToLower[s[i]] ELSE s[i]]

(* \d and int() on decimal digits *)
DigitValue ==
    [c \in {"0", "1", "2", "3", "4", "5", "6", "7", "8", "9"} |->
        CASE c = "0" -> 0 [] c = "1" -> 1 [] c = "2" -> 2 [] c = "3" -> 3
          [] c = "4" -> 4 [] c = "5" -> 5 [] c = "6" -> 6 [] c = "7" -> 7
          [] c = "8" -> 8 [] c = "9" -> 9]
IsDigit(c) == c \in DOMAIN DigitValue

RECURSIVE int(_)
int(digits) ==
    IF digits = <<>> THEN 0
    ELSE 10 * int(SubSeq(digits, 1, Len(digits) - 1)) + DigitValue[digits[Len(digits)]]

(* The pattern r'(\d+)-question' *)
QUESTION_LITERAL == <<"-", "q", "u", "e", "s", "t", "i", "o", "n">>

LiteralAt(s, i) ==
    /\ i + Len(QUESTION_LITERAL) - 1 <= Len(s)
    /\ SubSeq(s, i, i + Len(QUESTION_LITERAL) - 1) = QUESTION_LITERAL

(* the digits \d+ takes at position i: as many as there are *)
RECURSIVE DigitRun(_, _)
DigitRun(s, i) ==
    IF i <= Len(s) /\ IsDigit(s[i]) THEN 1 + DigitRun(s, i + 1) ELSE 0

(* the match that starts at i with n digits, or fewer when the literal *)
(* does not follow (backtracking); NoMatch when none does              *)
NoMatch == [matched |-> FALSE]
RECURSIVE match_at(_, _, _)
match_at(s, i, n) ==
    IF n < 1 THEN NoMatch
    ELSE IF LiteralAt(s, i + n)
    THEN [matched |-> TRUE, group1 |-> SubSeq(s, i, i + n - 1)]
    ELSE match_at(s, i, n - 1)

(* re.search: the match at the leftmost position that has one *)
RECURSIVE re_search_from(_, _)
re_search_from(s, i) ==
    IF i > Len(s) THEN NoMatch
    ELSE LET m == match_at(s, i, DigitRun(s, i)) IN
         IF m.matched THEN m ELSE re_search_from(s, i + 1)

re_search(s) == re_search_from(s, 1)

DEFAULT_NUM_QUESTIONS == 5

(* num_questions as QuizAgent.execute computes it from the query *)
num_questions_of(query) ==
    LET match == re_search(lower(query)) IN
    IF match.matched THEN int(match.group1) ELSE DEFAULT_NUM_QUESTIONS

(* the explanation reset along with the quiz *)
QuizAgent_execute_clears_explanation(st, reply) ==
    LET intent == Get(st, "intent", "concept") IN
    IF intent \notin {"quiz", "practice"}
    THEN Return([st EXCEPT !.quiz = PyNone])
    ELSE LET quiz == generate_quiz(Get(st, "topic", <<>>), Get(st, "context", <<>>),
                                   Get(st, "difficulty", "medium"), reply)
         IN IF quiz.ok
            THEN Return([st EXCEPT !.quiz = quiz.value, !.explanation = <<>>])
            ELSE quiz

QuizAgent_execute(st, reply) ==
    LET intent == Get(st, "intent", "concept") IN
    IF intent \notin {"quiz", "practice"}
    THEN Return([st EXCEPT !.quiz = PyNone])
    ELSE LET quiz == generate_quiz(Get(st, "topic", <<>>), Get(st, "context", <<>>),
                                   Get(st, "difficulty", "medium"), reply)
         IN IF quiz.ok THEN Return([st EXCEPT !.quiz = quiz.value]) ELSE quiz

---------------------------------------------------------------------------
(* EvaluationAgent (agents/evaluation_agent.py) *)

mcq_student_clean_not_stripped(s) == s
mcq_student_clean(s) == strip(s)

evaluate_mcq_answer(question, student_answer, correct_answer, explanation) ==
    LET student_clean == mcq_student_clean(student_answer)
        correct_clean == strip(correct_answer)
        is_correct == student_clean = correct_clean
        score == IF is_correct THEN MCQ_CORRECT_SCORE ELSE MCQ_WRONG_SCORE
    IN IF is_correct
       THEN [score |-> score,
             is_correct |-> TRUE,
             strengths |-> <<"Correct answer selected",
                             "Good understanding of the concept">>,
             weaknesses |-> <<>>,
             feedback |-> [text |-> "Excellent! Your answer is correct.",
                           explanation |-> explanation],
             improvement_tips |-> <<>>]
       ELSE [score |-> score,
             is_correct |-> FALSE,
             strengths |-> <<"Attempted the question">>,
             weaknesses |-> <<"Incorrect option selected", "Review the concept">>,
             feedback |-> [text |-> "Incorrect. The correct answer is:",
                           correct_answer |-> correct_answer,
                           explanation |-> explanation],
             improvement_tips |-> <<"Review the relevant study material",
                                    "Focus on understanding key concepts",
                                    "Try similar practice questions">>]

FallbackEvaluation ==
    [score |-> FALLBACK_SCORE,
     is_correct |-> FALSE,
     strengths |-> <<"Attempted the question">>,
     weaknesses |-> <<"Unable to fully evaluate">>,
     feedback |-> [text |-> "Please try again with more detail."],
     improvement_tips |-> <<"Review the material", "Practice more examples">>]

(* evaluate_answer asking the client before it looks at question_type *)
evaluate_answer_always_asks(question, student_answer, correct_answer, question_type, explanation, context, reply) ==
    LET response == llm_invoke(reply) IN
    IF ~response.ok THEN response
    ELSE Return(evaluate_mcq_answer(question, student_answer, correct_answer,
                                    explanation))

(* reply: what the TextGenerationClient answers if it is asked *)
evaluate_answer(question, student_answer, correct_answer, question_type, explanation, context, reply) ==
    IF question_type = "multiple_choice"
    THEN Return(evaluate_mcq_answer(question, student_answer, correct_answer,
                                    explanation))
    ELSE LET response == llm_invoke(reply) IN
         IF ~response.ok THEN response              \* chain.invoke is outside the try
         ELSE LET evaluation == json_loads(response.value) IN
              IF ~evaluation.ok
              THEN Return(FallbackEvaluation)       \* except JSONDecodeError
              ELSE IF evaluation.value.tag # "object"
              THEN Raise("TypeError")               \* evaluation['score']
              ELSE IF {"score", "is_correct"} \subseteq DOMAIN evaluation.value.fields
              THEN Return(evaluation.value.fields)
              ELSE Raise("KeyError")                \* evaluation['score'] ...

(* round(total / n, 2) in hundredths; for n < 8 no quotient of integers *)
(* lies halfway between two hundredths                                  *)
RoundedMean_x100(total, n) == (200 * total + n) \div (2 * n)

(* quiz[idx] for idx >= 0 (Python counts from 0) *)
question_at_first(quiz, idx) == quiz[1]
question_at(quiz, idx) == quiz[idx + 1]

(* question_data.get("type", "multiple_choice") *)
DEFAULT_QUESTION_TYPE_short_answer == "short_answer"
DEFAULT_QUESTION_TYPE == "multiple_choice"

(* if idx < len(quiz) *)
in_range_off_by_one(idx, quiz) == idx + 1 < Len(quiz)
in_range(idx, quiz) == idx < Len(quiz)

(* The body of the for loop of evaluate_quiz from the i-th item of the  *)
(* dict on; student_answers is the sequence of the dict's items in      *)
(* insertion order, replies[i] the reply to the i-th item's prompt      *)
RECURSIVE evaluate_items(_, _, _, _, _, _, _)
evaluate_items(quiz, student_answers, context, replies, i, evaluations, total_score) ==
    IF i > Len(student_answers)
    THEN Return([evaluations |-> evaluations, total_score |-> total_score])
    ELSE LET idx == student_answers[i].key
             answer_text == student_answers[i].text
         IN IF in_range(idx, quiz)
            THEN LET question_data == question_at(quiz, idx) IN
                 IF ~({"question", "correct_answer"} \subseteq DOMAIN question_data)
                 THEN Raise("KeyError")
                 ELSE LET eval_result ==
                              evaluate_answer(question_data["question"],
                                              answer_text,
                                              question_data["correct_answer"],
                                              Get(question_data, "type", DEFAULT_QUESTION_TYPE),
                                              Get(question_data, "explanation", ""),
                                              context,
                                              replies[i])
                      IN IF ~eval_result.ok THEN eval_result
                         ELSE LET item == ("question_number" :> idx + 1) @@ eval_result.value
                              IN evaluate_items(quiz, student_answers, context, replies,
                                                i + 1, Append(evaluations, item),
                                                total_score + item["score"])
            ELSE evaluate_items(quiz, student_answers, context, replies,
                                i + 1, evaluations, total_score)

TrueCount(evaluations) ==
    Cardinality({j \in 1..Len(evaluations) : Get(evaluations[j], "is_correct", FALSE)})

avg_score_x100(total_score, student_answers) ==
    IF student_answers # <<>>
    THEN RoundedMean_x100(total_score, Len(student_answers))
    ELSE 0

evaluate_quiz(quiz, student_answers, context, replies) ==
    LET loop == evaluate_items(quiz, student_answers, context, replies, 1, <<>>, 0) IN
    IF ~loop.ok THEN loop
    ELSE LET evaluations == loop.value.evaluations
             correct_count == TrueCount(evaluations)
         IN Return([overall_score_x100 |->
                        avg_score_x100(loop.value.total_score, student_answers),
                    questions_evaluated |-> Len(evaluations),
                    correct_answers |-> correct_count,
                    incorrect_answers |-> Len(evaluations) - correct_count,
                    evaluations |-> evaluations])

EvaluationAgent_execute(st, replies) ==
    LET student_answers == Get(st, "student_answers", <<>>) IN
    IF student_answers = <<>>
    THEN Return([st EXCEPT !.evaluation = PyNone])
    ELSE LET quiz == Get(st, "quiz", PyList(<<>>)) IN
         IF quiz = PyNone
         THEN Raise("TypeError")                    \* len(quiz)
         ELSE LET evaluation ==
                      evaluate_quiz(quiz.items, student_answers,
                                    Get(st, "context", <<>>), replies)
              IN IF evaluation.ok
                 THEN Return([st EXCEPT !.evaluation = evaluation.value])
                 ELSE evaluation

(* scoring against a quiz other than the one handed in *)
evaluate_quiz_directly_other_quiz(quiz_questions, student_answers, context, replies) ==
    evaluate_quiz(Tail(quiz_questions), student_answers, context, replies)

evaluate_quiz_directly(quiz_questions, student_answers, context, replies) ==
    evaluate_quiz(quiz_questions, student_answers, context, replies)

---------------------------------------------------------------------------
(* What the callers and the external services may supply *)

Queries == {<<"q1">>, <<"q2">>}
IntentValues == {"concept", "doubt", "practice", "quiz", "", "Quiz"}
TopicValues == {<<"t1">>, <<>>}
DifficultyValues == {"hard"}
ExplanationTexts == {<<"e1">>, <<"e2">>}
ScoreValues == {0, 100, 150}
AnswerTexts == {<<" ", "a">>, <<"A">>}

ClassifierReplies ==
    {TextReply, NonObjectReply} \cup
    {ObjectReply(Opt(hi, "intent", i) @@ Opt(ht, "topic", t) @@ Opt(hd, "difficulty", d)) :
        hi \in BOOLEAN, i \in IntentValues, ht \in BOOLEAN, t \in TopicValues,
        hd \in BOOLEAN, d \in DifficultyValues}

McqQuestion ==
    [question |-> <<"Q1">>, type |-> "multiple_choice",
     options |-> << <<"a">>, <<"A">> >>, correct_answer |-> <<"a">>,
     explanation |-> "x1"]
ShortQuestion ==
    [question |-> <<"Q2">>, type |-> "short_answer",
     options |-> <<>>, correct_answer |-> <<"A">>, explanation |-> "x2"]
UntypedQuestion ==
    [question |-> <<"Q3">>, options |-> << <<"a">>, <<"A">> >>,
     correct_answer |-> <<"A", " ">>]
Questions == {McqQuestion, ShortQuestion, UntypedQuestion}
Quizzes(n) == SeqsUpTo(Questions, n)

QuizReplies ==
    {TextReply, NonObjectReply, ObjectReply(EmptyDict),
     ObjectReply("questions" :> PyNone)} \cup
    {ObjectReply("questions" :> PyList(q)) : q \in Quizzes(GraphMaxQuizLen)}

EvalReplies ==
    {TextReply, NonObjectReply} \cup
    {ObjectReply(Opt(hs, "score", sc) @@ Opt(hc, "is_correct", c)) :
        hs \in BOOLEAN, sc \in ScoreValues, hc \in BOOLEAN, c \in BOOLEAN}

(* student_answers: the items of a dict, in insertion order, keys distinct *)
AnswerDicts(maxKey, n) ==
    {d \in SeqsUpTo([key : 0..maxKey, text : AnswerTexts], n) :
        \A i, j \in 1..Len(d) : i # j => d[i].key # d[j].key}
AnswerArgs ==
    {PyNone} \cup
    {[py |-> "dict", items |-> d] : d \in AnswerDicts(GraphMaxKey, GraphMaxAnswers)}

(* The items of d whose prompt the TextGenerationClient receives *)
PromptedItems(quiz, d) ==
    {i \in 1..Len(d) :
        /\ d[i].key < Len(quiz)
        /\ Get(quiz[d[i].key + 1], "type", DEFAULT_QUESTION_TYPE) # "multiple_choice"}

(* One reply per prompt, out of the set R; an item that sends no prompt *)
(* gets no reply                                                       *)
ReplyChoicesFrom(quiz, d, R) ==
    {[i \in 1..Len(d) |-> IF i \in PromptedItems(quiz, d) THEN r[i] ELSE TextReply] :
        r \in [PromptedItems(quiz, d) -> R]}

ReplyChoices(quiz, d) == ReplyChoicesFrom(quiz, d, EvalReplies)

TeachingReplies == {ContentReply(e) : e \in ExplanationTexts}

---------------------------------------------------------------------------
(* TeachingAssistantGraph (graph.py) *)

NoState == [none |-> TRUE]
NoCall == [op |-> "none"]
NoResult == [none |-> TRUE]

(* initialize_session_state: the entries of st.session_state the quiz flows use *)
InitialSession ==
    [current_quiz |-> PyNone,
     quiz_results |-> PyNone,
     mcq_quiz |-> PyNone,
     mcq_answers |-> <<>>,
     mcq_results |-> PyNone]

(* an initial state that takes the quiz of an earlier call from the session *)
InitialState_keeps_quiz(query, student_answers) ==
    [query |-> query,
     intent |-> "",
     topic |-> <<>>,
     difficulty |-> "medium",
     context |-> <<>>,
     explanation |-> <<>>,
     quiz |-> IF session.current_quiz = PyNone THEN PyList(<<>>) ELSE session.current_quiz,
     student_answers |-> IF student_answers = PyNone THEN <<>> ELSE student_answers.items,
     evaluation |-> PyNone,
     messages |-> <<>>]

InitialState(query, student_answers) ==
    [query |-> query,
     intent |-> "",
     topic |-> <<>>,
     difficulty |-> "medium",
     context |-> <<>>,
     explanation |-> <<>>,
     quiz |-> PyList(<<>>),
     student_answers |-> IF student_answers = PyNone THEN <<>> ELSE student_answers.items,
     evaluation |-> PyNone,
     messages |-> <<>>]

route_after_retrieval_default_teaching(st) ==
    LET intent == Get(st, "intent", "concept") IN
    IF intent = "quiz" THEN "quiz" ELSE "teaching"

route_after_retrieval_practice_to_quiz(st) ==
    LET intent == Get(st, "intent", "concept") IN
    IF intent \in {"quiz", "practice"} THEN "quiz"
    ELSE IF intent \in {"concept", "doubt"} THEN "teaching"
    ELSE "end"

route_after_retrieval(st) ==
    LET intent == Get(st, "intent", "concept") IN
    IF intent = "quiz" THEN "quiz"
    ELSE IF intent \in {"concept", "doubt", "practice"} THEN "teaching"
    ELSE "end"

route_after_teaching_doubt_to_quiz(st) ==
    LET intent == Get(st, "intent", "concept") IN
    IF intent \in {"practice", "doubt"} THEN "quiz" ELSE "end"

route_after_teaching_always_quiz(st) == "quiz"

route_after_teaching(st) ==
    LET intent == Get(st, "intent", "concept") IN
    IF intent = "practice" THEN "quiz" ELSE "end"

route_after_quiz_always_evaluate(st) == "evaluate"

route_after_quiz(st) ==
    LET student_answers == Get(st, "student_answers", <<>>) IN
    IF student_answers # <<>> THEN "evaluate" ELSE "end"

(* The edges of _build_graph: the node that follows `node` in state st *)
build_graph(node, st) ==
    CASE node = "query_understanding" -> "retrieval"
      [] node = "retrieval" ->
            [teaching |-> "teaching", quiz |-> "quiz_generation", end |-> "end"]
                [route_after_retrieval(st)]
      [] node = "teaching" ->
            [quiz |-> "quiz_generation", end |-> "end"][route_after_teaching(st)]
      [] node = "quiz_generation" ->
            [evaluate |-> "evaluate", end |-> "end"][route_after_quiz(st)]
      [] node = "evaluate" -> "end"

(* graph.invoke runs one node: the node's function, then the edge out of it; *)
(* an exception of the node leaves graph.invoke and process_query.           *)
(* exchange: what the node asked of an external service and what it got      *)
RunNode(node, outcome, exchange) ==
    /\ pc = node
    /\ visited' = Append(visited, node)
    /\ io' = io \o exchange
    /\ IF outcome.ok
       THEN /\ state' = outcome.value
            /\ pc' = build_graph(node, outcome.value)
            /\ err' = "none"
       ELSE /\ state' = state
            /\ pc' = "raised"
            /\ err' = outcome.error
    /\ UNCHANGED <<vectorstore, calls, call, result, session>>

process_query ==
    /\ pc = "idle"
    /\ calls < MaxCalls
    /\ \E query \in Queries, student_answers \in AnswerArgs :
          /\ state' = InitialState(query, student_answers)
          /\ call' = [op |-> "process_query", query |-> query,
                      student_answers |-> student_answers]
    /\ pc' = "query_understanding"
    /\ visited' = <<>>
    /\ err' = "none"
    /\ io' = <<>>
    /\ calls' = calls + 1
    /\ UNCHANGED <<vectorstore, result, session>>

(* process_query hands the final state to its caller, or the exception *)
(* of a node reaches the caller; the instance is ready for the next call *)
process_query_return ==
    /\ pc \in {"end", "raised"}
    /\ pc' = "idle"
    /\ state' = NoState
    /\ visited' = <<>>
    /\ err' = "none"
    /\ call' = NoCall
    /\ io' = <<>>
    /\ UNCHANGED <<vectorstore, calls, result, session>>

(* What each node asks of the TextGenerationClient or of the vector index, *)
(* with the answer it gets: nothing when the node does not ask             *)
QueryExchange(st, reply) ==
    <<[node |-> "query_understanding", reply |-> reply]>>

RetrievalExchange(store, st, search) ==
    IF store = "None" THEN <<>>
    ELSE <<[node |-> "retrieval", query |-> search_query(st), k |-> TOP_K,
            search |-> search]>>

TeachingExchange(st, reply) ==
    IF Get(st, "intent", "concept") = "quiz" THEN <<>>
    ELSE <<[node |-> "teaching", reply |-> reply]>>

QuizExchange(st, reply) ==
    IF Get(st, "intent", "concept") \notin {"quiz", "practice"} THEN <<>>
    ELSE <<[node |-> "quiz_generation",
            num_questions |-> num_questions_of(Get(st, "query", <<>>)),
            reply |-> reply]>>

EvaluationExchange(st, replies) ==
    IF Get(st, "student_answers", <<>>) = <<>> THEN <<>>
    ELSE <<[node |-> "evaluate", replies |-> replies]>>

query_node_on(replies) ==
    \E reply \in replies :
        RunNode("query_understanding", QueryAgent_execute(state, reply),
                QueryExchange(state, reply))

retrieval_node ==
    \E search \in SearchOutcomes(TOP_K) :
        RunNode("retrieval", RetrievalAgent_execute(vectorstore, state, search),
                RetrievalExchange(vectorstore, state, search))

teaching_node_on(replies) ==
    \E reply \in replies :
        RunNode("teaching", TeachingAgent_execute(state, reply),
                TeachingExchange(state, reply))

quiz_node_on(replies) ==
    \E reply \in replies :
        RunNode("quiz_generation", QuizAgent_execute(state, reply),
                QuizExchange(state, reply))

evaluation_node_on(R) ==
    /\ pc = "evaluate"
    /\ \E replies \in ReplyChoicesFrom(IF state.quiz = PyNone THEN <<>> ELSE state.quiz.items, state.student_answers, R) :
          RunNode("evaluate", EvaluationAgent_execute(state, replies),
                  EvaluationExchange(state, replies))

(* The nodes when every call of the TextGenerationClient returns *)
query_node == query_node_on(ClassifierReplies)
teaching_node == teaching_node_on(TeachingReplies)
quiz_node == quiz_node_on(QuizReplies)
evaluation_node == evaluation_node_on(EvalReplies)

(* The nodes when a call of the TextGenerationClient may raise *)
ClassifierOutcomes == ClassifierReplies \cup {ClientError}
TeachingOutcomes == TeachingReplies \cup {ClientError}
QuizOutcomes == QuizReplies \cup {ClientError}
EvalOutcomes == EvalReplies \cup {ClientError}

query_node_client_may_raise == query_node_on(ClassifierOutcomes)
teaching_node_client_may_raise == teaching_node_on(TeachingOutcomes)
quiz_node_client_may_raise == quiz_node_on(QuizOutcomes)
evaluation_node_client_may_raise == evaluation_node_on(EvalOutcomes)

Init ==
    /\ vectorstore \in {"None", "loaded"}
    /\ pc = "idle"
    /\ state = NoState
    /\ visited = <<>>
    /\ err = "none"
    /\ calls = 0
    /\ call = NoCall
    /\ result = NoResult
    /\ io = <<>>
    /\ session = InitialSession

Next ==
    \/ process_query
    \/ process_query_return
    \/ query_node
    \/ retrieval_node
    \/ teaching_node
    \/ quiz_node
    \/ evaluation_node

(* Every call of an external service returns (the index search may fail: *)
(* retrieve_context catches that)                                        *)
Spec == Init /\ [][Next]_vars

NextFail ==
    \/ process_query
    \/ process_query_return
    \/ query_node_client_may_raise
    \/ retrieval_node
    \/ teaching_node_client_may_raise
    \/ quiz_node_client_may_raise
    \/ evaluation_node_client_may_raise

(* As Spec, and any call of the TextGenerationClient may raise *)
SpecFail == Init /\ [][NextFail]_vars

---------------------------------------------------------------------------
(* Direct calls of the agents' methods: the arguments and the replies the *)
(* TextGenerationClient would give are drawn first, the call applies the  *)
(* method to them.                                                          *)

AnalyzeQueryCalls ==
    [op : {"analyze_query"}, query : Queries, reply : ClassifierReplies]

GenerateQuizCalls ==
    [op : {"generate_quiz"}, topic : TopicValues \cup Queries, reply : QuizReplies]

EvaluateAnswerCalls ==
    [op : {"evaluate_answer"}, student_answer : Strings, correct_answer : Strings,
     question_type : {"multiple_choice"}, reply : {TextReply}]
    \cup
    [op : {"evaluate_answer"}, student_answer : AnswerTexts, correct_answer : AnswerTexts,
     question_type : {"short_answer", "essay"}, reply : EvalReplies]

(* Query texts, character by character: concatenations of digits, the *)
(* literal in lower and in upper case, a part of it, another character *)
QueryChunks ==
    {<<"0">>, <<"1">>, <<"2">>, <<"x">>, <<"-", "q">>,
     <<"-", "q", "u", "e", "s", "t", "i", "o", "n">>,
     <<"-", "Q", "U", "E", "S", "T", "I", "O", "N">>}

RECURSIVE Concat(_)
Concat(chunks) == IF chunks = <<>> THEN <<>> ELSE Head(chunks) \o Concat(Tail(chunks))

QueryTexts == {Concat(c) : c \in SeqsUpTo(QueryChunks, MaxChunks)}

QuizExecuteCalls ==
    [op : {"QuizAgent_execute"}, query : QueryTexts,
     intent : {"quiz", "practice", "doubt"}, reply : {TextReply}]

QuizExecuteState(c) ==
    [InitialState(c.query, PyNone) EXCEPT !.intent = c.intent, !.topic = <<"t1">>]

TeachingExecuteCalls ==
    [op : {"TeachingAgent_execute"}, query : Queries, intent : IntentValues,
     reply : TeachingOutcomes]

TeachingExecuteState(c) ==
    [InitialState(c.query, PyNone) EXCEPT !.intent = c.intent, !.topic = <<"t1">>]

analyze_query_call ==
    /\ call.op = "analyze_query"
    /\ result = NoResult
    /\ result' = analyze_query(call.query, call.reply)
    /\ UNCHANGED <<vectorstore, pc, state, visited, err, calls, call, io, session>>

generate_quiz_call ==
    /\ call.op = "generate_quiz"
    /\ result = NoResult
    /\ result' = generate_quiz(call.topic, <<>>, "medium", call.reply)
    /\ UNCHANGED <<vectorstore, pc, state, visited, err, calls, call, io, session>>

evaluate_answer_call ==
    /\ call.op = "evaluate_answer"
    /\ result = NoResult
    /\ result' = evaluate_answer(<<"Q">>, call.student_answer, call.correct_answer,
                                 call.question_type, "x", <<>>, call.reply)
    /\ UNCHANGED <<vectorstore, pc, state, visited, err, calls, call, io, session>>

QuizAgent_execute_call ==
    /\ call.op = "QuizAgent_execute"
    /\ result = NoResult
    /\ result' = QuizAgent_execute(QuizExecuteState(call), call.reply)
    /\ io' = QuizExchange(QuizExecuteState(call), call.reply)
    /\ UNCHANGED <<vectorstore, pc, state, visited, err, calls, call, session>>

TeachingAgent_execute_call ==
    /\ call.op = "TeachingAgent_execute"
    /\ result = NoResult
    /\ result' = TeachingAgent_execute(TeachingExecuteState(call), call.reply)
    /\ io' = TeachingExchange(TeachingExecuteState(call), call.reply)
    /\ UNCHANGED <<vectorstore, pc, state, visited, err, calls, call, session>>

evaluate_quiz_directly_call ==
    /\ call.op = "evaluate_quiz_directly"
    /\ result = NoResult
    /\ result' = evaluate_quiz_directly(call.quiz_questions, call.student_answers,
                                        <<>>, call.replies)
    /\ UNCHANGED <<vectorstore, pc, state, visited, err, calls, call, io, session>>

InitCalls ==
    /\ vectorstore = "None"
    /\ pc = "idle"
    /\ state = NoState
    /\ visited = <<>>
    /\ err = "none"
    /\ calls = 0
    /\ io = <<>>
    /\ session = InitialSession
    /\ \/ call \in AnalyzeQueryCalls
       \/ call \in GenerateQuizCalls
       \/ call \in EvaluateAnswerCalls
       \/ call \in QuizExecuteCalls
       \/ call \in TeachingExecuteCalls
       \/ \E q \in Quizzes(MaxQuizLen), d \in AnswerDicts(MaxKey, MaxAnswers) :
            \E r \in ReplyChoices(q, d) :
                call = [op |-> "evaluate_quiz_directly", quiz_questions |-> q,
                        student_answers |-> d, replies |-> r]
    /\ result = NoResult

NextCalls ==
    \/ analyze_query_call
    \/ generate_quiz_call
    \/ evaluate_answer_call
    \/ QuizAgent_execute_call
    \/ TeachingAgent_execute_call
    \/ evaluate_quiz_directly_call

SpecCalls == InitCalls /\ [][NextCalls]_vars

---------------------------------------------------------------------------
(* The Streamlit application (app.py): the Ask-Me-Anything tab and the MCQ *)
(* quiz tab, on one TeachingAssistantGraph instance and one session        *)

(* What the services answer while the application runs *)
AppClassifierReplies ==
    {ObjectReply([intent |-> i, topic |-> <<"t1">>, difficulty |-> "hard"]) :
        i \in {"concept", "quiz"}}
AppTeachingReplies == {ContentReply(<<"e1">>)}
AppQuizzes == {<<ShortQuestion>>, <<McqQuestion, ShortQuestion, McqQuestion>>}
AppQuizReplies == {ObjectReply("questions" :> PyList(q)) : q \in AppQuizzes}
AppEvalReplies ==
    {TextReply, ObjectReply([score |-> MCQ_CORRECT_SCORE, is_correct |-> TRUE])}

(* q['options'] as a set *)
options_of(q) == {q["options"][k] : k \in 1..Len(q["options"])}

(* The value of the widget display_quiz shows for a question: nothing, *)
(* one of the options, or a typed text                                 *)
NoAnswer == [answered |-> FALSE]
WidgetValues(q) ==
    {NoAnswer} \cup
    {[answered |-> TRUE, text |-> a] :
        a \in IF q["type"] = "multiple_choice" /\ Get(q, "options", <<>>) # <<>>
              THEN options_of(q) ELSE {<<"A">>}}

(* student_answers[idx] = answer, for idx in the order of enumerate(quiz) *)
RECURSIVE collect_answers(_, _)
collect_answers(widgets, k) ==
    IF k > Len(widgets) THEN <<>>
    ELSE (IF widgets[k].answered
          THEN <<[key |-> k - 1, text |-> widgets[k].text]>> ELSE <<>>)
         \o collect_answers(widgets, k + 1)

CollectedAnswers(quiz) ==
    {collect_answers(w, 1) :
        w \in {v \in [1..Len(quiz) -> UNION {WidgetValues(quiz[k]) : k \in 1..Len(quiz)}] :
                 \A k \in 1..Len(quiz) : v[k] \in WidgetValues(quiz[k])}}

(* st.session_state.assistant.process_query(query, student_answers), *)
(* called by the handler named                                        *)
assistant_process_query(handler, query, student_answers) ==
    /\ pc = "idle"
    /\ calls < MaxCalls
    /\ state' = InitialState(query, student_answers)
    /\ call' = [op |-> "process_query", query |-> query,
                student_answers |-> student_answers, handler |-> handler]
    /\ pc' = "query_understanding"
    /\ visited' = <<>>
    /\ err' = "none"
    /\ io' = <<>>
    /\ calls' = calls + 1
    /\ UNCHANGED vectorstore

(* process_query is over: its caller goes on with the final state, or *)
(* with the exception (every caller catches Exception)                *)
handler_resumes(handler) ==
    /\ pc \in {"end", "raised"}
    /\ call.handler = handler
    /\ pc' = "idle"
    /\ state' = NoState
    /\ visited' = <<>>
    /\ err' = "none"
    /\ call' = NoCall
    /\ io' = <<>>
    /\ UNCHANGED <<vectorstore, calls>>

(* main: "Get Answer" *)
main_get_answer ==
    /\ \E query \in Queries : assistant_process_query("main", query, PyNone)
    /\ result' = NoResult
    /\ UNCHANGED session

(* main: the result is shown; display_quiz stores a non-empty quiz *)
main_display ==
    /\ handler_resumes("main")
    /\ result' = IF pc = "end" THEN Return(state) ELSE Raise(err)
    /\ session' = IF /\ pc = "end"
                     /\ session.quiz_results = PyNone
                     /\ state.quiz # PyNone
                     /\ state.quiz.items # <<>>
                  THEN [session EXCEPT !.current_quiz = state.quiz]
                  ELSE session

(* The quiz display_quiz is showing *)
QuizDisplayed ==
    /\ pc = "idle"
    /\ result # NoResult
    /\ result.ok
    /\ result.value.quiz # PyNone
    /\ result.value.quiz.items # <<>>
    /\ session.quiz_results = PyNone

(* display_quiz: "Submit Answers" with at least one answer *)
display_quiz_submit ==
    /\ QuizDisplayed
    /\ \E d \in CollectedAnswers(result.value.quiz.items) :
          /\ d # <<>>
          /\ assistant_process_query("submit", result.value.query,
                                     [py |-> "dict", items |-> d])
    /\ UNCHANGED <<result, session>>

(* display_quiz: quiz_results = eval_result.get('evaluation') *)
display_quiz_store ==
    /\ handler_resumes("submit")
    /\ result' = NoResult
    /\ session' = IF pc = "end"
                  THEN [session EXCEPT !.quiz_results = state.evaluation]
                  ELSE session

(* display_mcq_quiz_mode: "Generate MCQ Quiz" *)
mcq_generate ==
    /\ \E query \in Queries : assistant_process_query("mcq", query, PyNone)
    /\ UNCHANGED <<result, session>>

(* [q for q in all_questions if q.get('type') == 'multiple_choice' and q.get('options')] *)
mcq_questions_of(all_questions) ==
    SelectSeq(all_questions,
              LAMBDA q : Get(q, "type", "") = "multiple_choice" /\ Get(q, "options", <<>>) # <<>>)

(* display_mcq_quiz_mode: the generated multiple choice questions are stored *)
mcq_store ==
    /\ handler_resumes("mcq")
    /\ session' = IF /\ pc = "end"
                     /\ state.quiz # PyNone
                     /\ mcq_questions_of(state.quiz.items) # <<>>
                  THEN [session EXCEPT
                           !.mcq_quiz = [questions |-> mcq_questions_of(state.quiz.items),
                                         query |-> call.query],
                           !.mcq_answers = <<>>,
                           !.mcq_results = PyNone]
                  ELSE session
    /\ UNCHANGED result

(* d[key] = text on a dict kept as the sequence of its items *)
dict_set(d, key, text) ==
    IF \E i \in 1..Len(d) : d[i].key = key
    THEN [i \in 1..Len(d) |-> IF d[i].key = key THEN [key |-> key, text |-> text] ELSE d[i]]
    ELSE Append(d, [key |-> key, text |-> text])

MCQQuizDisplayed ==
    /\ pc = "idle"
    /\ session.mcq_quiz # PyNone
    /\ session.mcq_results = PyNone

(* display_mcq_quiz_mode: st.session_state.mcq_answers[idx] = answer *)
mcq_select ==
    /\ MCQQuizDisplayed
    /\ \E idx \in 0..(Len(session.mcq_quiz.questions) - 1) :
          \E answer \in options_of(session.mcq_quiz.questions[idx + 1]) :
             session' = [session EXCEPT !.mcq_answers = dict_set(@, idx, answer)]
    /\ UNCHANGED <<vectorstore, pc, state, visited, err, calls, call, result, io>>

(* display_mcq_quiz_mode: "Submit Quiz" with at least one answer *)
mcq_submit ==
    /\ MCQQuizDisplayed
    /\ session.mcq_answers # <<>>
    /\ \E replies \in ReplyChoicesFrom(session.mcq_quiz.questions, session.mcq_answers,
                                       AppEvalReplies) :
          LET results == evaluate_quiz_directly(session.mcq_quiz.questions,
                                                session.mcq_answers, <<>>, replies)
          IN session' = IF results.ok
                        THEN [session EXCEPT !.mcq_results = results.value]
                        ELSE session
    /\ UNCHANGED <<vectorstore, pc, state, visited, err, calls, call, result, io>>

(* display_mcq_quiz_mode: "Take Another Quiz" *)
mcq_take_another ==
    /\ pc = "idle"
    /\ session.mcq_results # PyNone
    /\ session' = [session EXCEPT !.mcq_quiz = PyNone, !.mcq_answers = <<>>,
                                  !.mcq_results = PyNone]
    /\ UNCHANGED <<vectorstore, pc, state, visited, err, calls, call, result, io>>

(* display_sidebar: "Clear Chat History" *)
clear_chat_history ==
    /\ pc = "idle"
    /\ session' = [session EXCEPT !.current_quiz = PyNone, !.quiz_results = PyNone]
    /\ UNCHANGED <<vectorstore, pc, state, visited, err, calls, call, result, io>>

app_query_node == query_node_on(AppClassifierReplies)
app_teaching_node == teaching_node_on(AppTeachingReplies)
app_quiz_node == quiz_node_on(AppQuizReplies)
app_evaluation_node == evaluation_node_on(AppEvalReplies)

NextApp ==
    \/ main_get_answer
    \/ main_display
    \/ display_quiz_submit
    \/ display_quiz_store
    \/ mcq_generate
    \/ mcq_store
    \/ mcq_select
    \/ mcq_submit
    \/ mcq_take_another
    \/ clear_chat_history
    \/ app_query_node
    \/ retrieval_node
    \/ app_teaching_node
    \/ app_quiz_node
    \/ app_evaluation_node

(* The application's handlers on one instance and one session; every call *)
(* of the TextGenerationClient returns                                    *)
SpecApp == Init /\ [][NextApp]_vars

---------------------------------------------------------------------------
(* Properties *)

Range(s) == {s[i] : i \in DOMAIN s}
IsPrefix(p, s) == Len(p) <= Len(s) /\ SubSeq(s, 1, Len(p)) = p
Contains(text, part) ==
    \E i \in 0..(Len(text) - Len(part)) : SubSeq(text, i + 1, i + Len(part)) = part

(* The query_understanding node has returned: state.intent is the classified intent *)
Classified ==
    \/ pc \in {"retrieval", "teaching", "quiz_generation", "evaluate", "end"}
    \/ pc = "raised" /\ Len(visited) > 1

Returned == result # NoResult

C2_QuizRoute ==
    (Classified /\ state.intent = "quiz" /\ pc \in {"end", "raised"}) =>
        /\ "teaching" \notin Range(visited)
        /\ Len(visited) >= 3
        /\ visited[3] = "quiz_generation"
        /\ ("evaluate" \in Range(visited)) = (state.student_answers # <<>>)

(* The routing of a quiz run whose quiz_generation node returns *)
QuizRouteWhenQuizReturns ==
    (Classified /\ state.intent = "quiz") =>
        /\ "teaching" \notin Range(visited)
        /\ IsPrefix(visited, <<"query_understanding", "retrieval", "quiz_generation", "evaluate">>)
        /\ pc = "evaluate" => state.student_answers # <<>>
        /\ pc = "end" => ("evaluate" \in Range(visited)) = (state.student_answers # <<>>)

C4_MeanOfEvaluatedItems ==
    (call.op = "evaluate_quiz_directly" /\ Returned /\ result.ok) =>
        LET evaluations == result.value.evaluations
            total == SumSeq([j \in 1..Len(evaluations) |-> evaluations[j]["score"]])
        IN result.value.overall_score_x100 =
              IF result.value.questions_evaluated = 0
              THEN 0
              ELSE RoundedMean_x100(total, result.value.questions_evaluated)

(* The shape a stage's parser expects of a reply *)
ExpectedShape(op, reply) ==
    /\ reply.tag = "object"
    /\ CASE op = "analyze_query" ->
                {"intent", "topic", "difficulty"} \subseteq DOMAIN reply.fields
         [] op = "generate_quiz" ->
                /\ "questions" \in DOMAIN reply.fields
                /\ reply.fields["questions"] # PyNone
         [] op = "evaluate_answer" ->
                {"score", "is_correct"} \subseteq DOMAIN reply.fields

StaticFallback(c) ==
    CASE c.op = "analyze_query" -> FallbackAnalysis(c.query)
      [] c.op = "generate_quiz" -> PyList(FallbackQuiz(c.topic))
      [] c.op = "evaluate_answer" -> FallbackEvaluation

ParsesReply(c) ==
    \/ c.op \in {"analyze_query", "generate_quiz"}
    \/ c.op = "evaluate_answer" /\ c.question_type # "multiple_choice"

(* C5: a stage that parses a reply returns its static fallback, and raises *)
(* nothing, whenever the reply does not have the shape it expects.         *)
C5_MalformedReplyRecovered ==
    (Returned /\ ParsesReply(call) /\ ~ExpectedShape(call.op, call.reply)) =>
        result = Return(StaticFallback(call))

(* C6: on a reply that is plain text (not JSON) each parsing stage returns *)
(* its documented fallback and raises nothing: the classifier intent       *)
(* concept, the query as topic, difficulty medium; the quiz generator one  *)
(* short_answer question without options whose text contains the topic;    *)
(* the short-answer evaluator score 50 and is_correct false.               *)
C6_TextReplyFallback ==
    (Returned /\ ParsesReply(call) /\ call.reply = TextReply) =>
        /\ result.ok
        /\ call.op = "analyze_query" =>
              /\ DOMAIN result.value = {"intent", "topic", "difficulty"}
              /\ result.value["intent"] = "concept"
              /\ result.value["topic"] = call.query
              /\ result.value["difficulty"] = "medium"
        /\ call.op = "generate_quiz" =>
              /\ result.value.py = "list"
              /\ Len(result.value.items) = 1
              /\ result.value.items[1]["type"] = "short_answer"
              /\ result.value.items[1]["options"] = <<>>
              /\ Contains(result.value.items[1]["question"], call.topic)
              /\ Len(result.value.items[1]["question"]) > Len(call.topic)
        /\ call.op = "evaluate_answer" =>
              /\ result.value["score"] = 50
              /\ result.value["is_correct"] = FALSE

C6_Witness ==
    /\ Returned
    /\ call.op = "analyze_query"
    /\ call.reply = TextReply
    /\ result.ok
    /\ result.value["topic"] = <<"q2">>

(* C7: in a run whose classified intent is none of concept, doubt,       *)
(* practice, quiz (the empty string, "Quiz"), the graph ends right after *)
(* retrieval: teaching, quiz_generation and evaluate are not invoked and *)
(* explanation, quiz and evaluation are those of the initial state.      *)
C7_UnknownIntentEnds ==
    (Classified /\ state.intent \notin {"concept", "doubt", "practice", "quiz"}) =>
        /\ IsPrefix(visited, <<"query_understanding", "retrieval">>)
        /\ pc \in {"retrieval", "end"}
        /\ (pc = "end") = (Len(visited) = 2)
        /\ state.explanation = <<>>
        /\ state.quiz = PyList(<<>>)
        /\ state.evaluation = PyNone

C7_Witness ==
    /\ pc = "end"
    /\ state.intent = "Quiz"
    /\ state.student_answers # <<>>
    /\ visited = <<"query_understanding", "retrieval">>

NoNodeTwice ==
    \A i, j \in 1..Len(visited) : i # j => visited[i] # visited[j]

(* C8: a call of process_query whose external calls all return goes on   *)
(* until the graph reaches END (no exception ends it before), and no     *)
(* node is invoked twice in it.                                          *)
C8_ReachesEndOncePerNode ==
    /\ NoNodeTwice
    /\ pc # "raised"

(* s is core with whitespace added in front and behind *)
PaddingOf(s, core) ==
    \E a \in 0..(Len(s) - Len(core)) :
        /\ SubSeq(s, a + 1, a + Len(core)) = core
        /\ \A k \in 1..Len(s) : (k <= a \/ k > a + Len(core)) => s[k] \in Whitespace

NoOuterWhitespace(core) ==
    core = <<>> \/ (core[1] \notin Whitespace /\ core[Len(core)] \notin Whitespace)

EqualAfterTrim(s, t) ==
    \E a \in 0..Len(s), n \in 0..Len(s) :
        /\ a + n <= Len(s)
        /\ NoOuterWhitespace(SubSeq(s, a + 1, a + n))
        /\ PaddingOf(s, SubSeq(s, a + 1, a + n))
        /\ PaddingOf(t, SubSeq(s, a + 1, a + n))

McqVerdict(student_answer, correct_answer) ==
    LET r == evaluate_answer(<<"Q">>, student_answer, correct_answer,
                             "multiple_choice", "x", <<>>, TextReply).value
    IN <<r.score, r.is_correct>>

(* C9: for a multiple_choice question evaluate_answer returns score 100  *)
(* and is_correct true exactly when the two answers are equal, character *)
(* for character (case included), once the whitespace around each is     *)
(* removed, and score 0 and is_correct false otherwise; whitespace added *)
(* in front of or behind either answer does not change the verdict.      *)
C9_McqExactMatchAfterTrim ==
    (Returned /\ call.op = "evaluate_answer" /\ call.question_type = "multiple_choice") =>
        /\ result.ok
        /\ IF EqualAfterTrim(call.student_answer, call.correct_answer)
           THEN result.value.score = 100 /\ result.value.is_correct = TRUE
           ELSE result.value.score = 0 /\ result.value.is_correct = FALSE
        /\ \A w \in Whitespace :
              \A p \in {<<w>> \o call.student_answer, call.student_answer \o <<w>>} :
                 \A q \in {<<w>> \o call.correct_answer, call.correct_answer \o <<w>>} :
                    /\ McqVerdict(p, call.correct_answer) = <<result.value.score, result.value.is_correct>>
                    /\ McqVerdict(call.student_answer, q) = <<result.value.score, result.value.is_correct>>

C9_Witness ==
    /\ Returned
    /\ call.op = "evaluate_answer"
    /\ call.question_type = "multiple_choice"
    /\ call.student_answer = <<" ", "a">>
    /\ call.correct_answer = <<"a", "\t">>
    /\ result.value.score = 100

InRangeItems(quiz, d) == {i \in 1..Len(d) : d[i].key < Len(quiz)}

(* C10: evaluate_quiz evaluates exactly the student_answers entries whose *)
(* key is less than len(quiz): questions_evaluated is their number, the   *)
(* items are those of these keys, and an entry with a larger key yields   *)
(* no item and no error (an error comes from an entry in range).          *)
C10_OutOfRangeSkipped ==
    (Returned /\ call.op = "evaluate_quiz_directly") =>
        LET inRange == InRangeItems(call.quiz_questions, call.student_answers) IN
        IF result.ok
        THEN /\ result.value.questions_evaluated = Cardinality(inRange)
             /\ Len(result.value.evaluations) = Cardinality(inRange)
             /\ {result.value.evaluations[j]["question_number"] :
                    j \in 1..Len(result.value.evaluations)}
                = {call.student_answers[i].key + 1 : i \in inRange}
        ELSE \E i \in inRange :
                /\ i \in PromptedItems(call.quiz_questions, call.student_answers)
                /\ ~ExpectedShape("evaluate_answer", call.replies[i])

C10_Witness ==
    /\ Returned
    /\ call.op = "evaluate_quiz_directly"
    /\ Len(call.quiz_questions) = 2
    /\ {call.student_answers[i].key : i \in 1..Len(call.student_answers)} = {0, 2}
    /\ result.ok
    /\ result.value.questions_evaluated = 1

(* The requests the quiz_generation stage sent to the generator in this call *)
QuizRequests == {i \in 1..Len(io) : io[i].node = "quiz_generation"}

(* C11: the number of questions the quiz_generation stage asks the generator *)
(* for is an integer >= 1, whatever the query text is (a query containing    *)
(* "0-question" included).                                                   *)
C11_NumQuestionsAtLeastOne ==
    \A i \in QuizRequests : io[i].num_questions >= 1

(* a and b are the same character up to case *)
CasePairs ==
    {<<"Q", "q">>, <<"U", "u">>, <<"E", "e">>, <<"S", "s">>, <<"T", "t">>,
     <<"I", "i">>, <<"O", "o">>, <<"N", "n">>, <<"A", "a">>}
SameIgnoringCase(a, b) == a = b \/ <<a, b>> \in CasePairs \/ <<b, a>> \in CasePairs

(* q[i..i+n-1] are digits and "-question" follows them, in any case *)
PatternAt(q, i, n) ==
    /\ n >= 1
    /\ i + n - 1 + Len(QUESTION_LITERAL) <= Len(q)
    /\ \A k \in i..(i + n - 1) : IsDigit(q[k])
    /\ \A k \in 1..Len(QUESTION_LITERAL) :
          SameIgnoringCase(q[i + n - 1 + k], QUESTION_LITERAL[k])

PatternStarts(q) == {i \in 1..Len(q) : \E n \in 1..Len(q) : PatternAt(q, i, n)}

RECURSIVE Pow10(_)
Pow10(k) == IF k = 0 THEN 1 ELSE 10 * Pow10(k - 1)

Decimal(digits) ==
    SumSeq([k \in 1..Len(digits) |-> DigitValue[digits[k]] * Pow10(Len(digits) - k)])

(* The N of the first "<N>-question" of q, and 5 when q has none *)
ExpectedNumQuestions(q) ==
    IF PatternStarts(q) = {} THEN 5
    ELSE LET i == CHOOSE a \in PatternStarts(q) : \A b \in PatternStarts(q) : a <= b
             n == CHOOSE m \in 1..Len(q) : PatternAt(q, i, m)
         IN Decimal(SubSeq(q, i, i + n - 1))

(* C12: when the quiz_generation stage asks the generator (intent quiz or   *)
(* practice), the number of questions it asks for is the integer N of the   *)
(* first "<N>-question" of the query, matched without regard to case, and 5 *)
(* when the query has no such substring.                                    *)
C12_NumQuestionsFromQuery ==
    (Returned /\ call.op = "QuizAgent_execute" /\ call.intent \in {"quiz", "practice"}) =>
        /\ Len(io) = 1
        /\ io[1].node = "quiz_generation"
        /\ io[1].num_questions = ExpectedNumQuestions(call.query)

C12_Witness ==
    /\ Returned
    /\ call.op = "QuizAgent_execute"
    /\ call.intent = "practice"
    /\ call.query = <<"1", "-", "Q", "U", "E", "S", "T", "I", "O", "N",
                      "2", "-", "q", "u", "e", "s", "t", "i", "o", "n">>
    /\ Len(io) = 1
    /\ io[1].num_questions = 1

Nodes == {"query_understanding", "retrieval", "teaching", "quiz_generation", "evaluate"}

(* The fields of the state each stage owns *)
OwnedFields ==
    [query_understanding |-> {"intent", "topic", "difficulty"},
     retrieval |-> {"context"},
     teaching |-> {"explanation"},
     quiz_generation |-> {"quiz"},
     evaluate |-> {"evaluation"}]

(* the student_answers process_query was called with; omitted means empty *)
PassedAnswers ==
    IF call.student_answers = PyNone THEN <<>> ELSE call.student_answers.items

(* C13: a stage that returns leaves every field it does not own as it was  *)
(* (query_understanding owns intent, topic, difficulty; retrieval context; *)
(* teaching explanation; quiz_generation quiz; evaluate evaluation), and   *)
(* from the first stage to the final state query and student_answers are   *)
(* the values process_query was called with.                              *)
C13_StagesWriteOwnFields ==
    [][/\ (pc \in Nodes /\ pc' # "raised") =>
            /\ DOMAIN state' = DOMAIN state
            /\ \A f \in DOMAIN state \ OwnedFields[pc] : state'[f] = state[f]
       /\ (pc' \in Nodes \cup {"end"}) =>
            /\ state'.query = call'.query
            /\ state'.student_answers =
                  IF call'.student_answers = PyNone THEN <<>>
                  ELSE call'.student_answers.items]_vars

C13_Witness ==
    /\ pc = "end"
    /\ visited = <<"query_understanding", "retrieval", "teaching",
                   "quiz_generation", "evaluate">>
    /\ state.query = call.query
    /\ state.student_answers # <<>>
    /\ state.student_answers = PassedAnswers
    /\ state.explanation \in ExplanationTexts

InCall == pc \in Nodes \cup {"end", "raised"}

(* C14: in a call of process_query with empty or omitted student_answers,   *)
(* whatever the intent, the evaluate stage is never invoked, evaluation is  *)
(* None up to and in the final state, and an exception, if there is one,    *)
(* comes from a stage that parses a reply, never from the missing answers.  *)
C14_NoAnswersNoEvaluation ==
    (InCall /\ PassedAnswers = <<>>) =>
        /\ "evaluate" \notin Range(visited)
        /\ pc # "evaluate"
        /\ state.evaluation = PyNone
        /\ pc = "raised" => visited[Len(visited)] \in {"query_understanding", "quiz_generation"}

C14_Witness ==
    /\ pc = "end"
    /\ call.student_answers = PyNone
    /\ state.intent = "quiz"
    /\ visited = <<"query_understanding", "retrieval", "quiz_generation">>
    /\ state.quiz # PyNone
    /\ state.quiz.items # <<>>
    /\ state.evaluation = PyNone

(* C15: in a call of process_query whose classified intent is neither quiz *)
(* nor practice, quiz is the empty list of the initial state up to and in  *)
(* the final state, with and without student_answers.                      *)
C15_QuizEmptyUnlessQuizIntent ==
    (Classified /\ state.intent \notin {"quiz", "practice"}) =>
        state.quiz = PyList(<<>>)

C15_Witness ==
    /\ pc = "end"
    /\ state.intent = "concept"
    /\ PassedAnswers # <<>>
    /\ "teaching" \in Range(visited)
    /\ state.quiz = PyList(<<>>)

(* The reply the classifier gave in this call, once it has been asked *)
ClassifierAsked == Len(io) >= 1 /\ io[1].node = "query_understanding"

(* C16: when json.loads rejects the classifier's reply, the call does not   *)
(* raise: intent is concept, topic is the query process_query was called    *)
(* with, difficulty is medium, and the graph invokes retrieval and teaching *)
(* and then ends.                                                           *)
C16_UnparsedClassifierReplyContinues ==
    (InCall /\ ClassifierAsked /\ io[1].reply = TextReply) =>
        /\ pc # "raised"
        /\ state.intent = "concept"
        /\ state.topic = call.query
        /\ state.difficulty = "medium"
        /\ IsPrefix(visited, <<"query_understanding", "retrieval", "teaching">>)
        /\ pc \in {"retrieval", "teaching", "end"}
        /\ (pc = "end") = (Len(visited) = 3)

C16_Witness ==
    /\ pc = "end"
    /\ ClassifierAsked
    /\ io[1].reply = TextReply
    /\ state.intent = "concept"
    /\ state.topic = call.query
    /\ visited = <<"query_understanding", "retrieval", "teaching">>
    /\ state.explanation \in ExplanationTexts

(* evaluate_answer returns on this reply *)
EvaluationReturns(reply) ==
    reply = TextReply \/ ExpectedShape("evaluate_answer", reply)

(* In the i-th exchange the TextGenerationClient raised *)
ClientRaisedAt(i) ==
    \/ /\ io[i].node \in {"query_understanding", "teaching", "quiz_generation"}
       /\ io[i].reply = ClientError
    \/ /\ io[i].node = "evaluate"
       /\ state.quiz # PyNone
       /\ \E k \in PromptedItems(state.quiz.items, state.student_answers) :
             /\ io[i].replies[k] = ClientError
             /\ \A j \in PromptedItems(state.quiz.items, state.student_answers) :
                   j < k => EvaluationReturns(io[i].replies[j])

(* C17: when the TextGenerationClient raises in query_understanding,    *)
(* teaching, quiz_generation or the evaluation of a short answer, the   *)
(* exception leaves the stage and process_query (no final state), and   *)
(* the stage that raised is the last one the call has run.              *)
C17_ClientErrorSurfaces ==
    \A i \in 1..Len(io) :
        (io[i].node # "retrieval" /\ ClientRaisedAt(i)) =>
            /\ pc = "raised"
            /\ err = "APIError"
            /\ i = Len(io)
            /\ visited[Len(visited)] = io[i].node

C17_Witness ==
    /\ pc = "raised"
    /\ err = "APIError"
    /\ visited[Len(visited)] = "evaluate"
    /\ io[Len(io)].node = "evaluate"
    /\ ClientRaisedAt(Len(io))

(* The retrieval stage has run in this call *)
Retrieved == InCall /\ Len(visited) >= 2

(* The search of the index, when retrieval made one *)
SearchExchanges == {i \in 1..Len(io) : io[i].node = "retrieval"}

SearchFailed == \E i \in SearchExchanges : ~io[i].search.ok

FoundPassages ==
    IF vectorstore = "None" \/ SearchFailed \/ SearchExchanges = {} THEN <<>>
    ELSE io[CHOOSE i \in SearchExchanges : TRUE].search.value

C20_SearchesTopicOrQuery ==
    \A i \in SearchExchanges :
        io[i].query = IF state.topic = <<>> THEN call.query ELSE state.topic

(* What the code does: the search string is always state["topic"] *)
SearchesTopic ==
    \A i \in SearchExchanges : io[i].query = state.topic /\ io[i].k = TOP_K

----------------------------------------------------------------------------
(* Evaluation without the client *)

(* One outcome of the client per student_answers entry, all of them the same *)
AllReplies(d, r) == [i \in 1..Len(d) |-> r]

OnlyMultipleChoice(quiz) ==
    \A k \in 1..Len(quiz) : Get(quiz[k], "type", "") = "multiple_choice"

(* C21: evaluate_answer on a multiple_choice question returns, for every pair *)
(* of answers, an item of score 100 or 0 whose is_correct is true exactly     *)
(* when the score is 100, and what the client would answer or raise has no    *)
(* part in it; evaluate_quiz over a quiz of multiple_choice questions only    *)
(* returns the same summary when every call of the client would raise.        *)
C21_McqNeedsNoClient ==
    /\ (Returned /\ call.op = "evaluate_answer" /\ call.question_type = "multiple_choice") =>
          /\ result.ok
          /\ result.value.score \in {MCQ_CORRECT_SCORE, MCQ_WRONG_SCORE}
          /\ result.value.is_correct = (result.value.score = MCQ_CORRECT_SCORE)
          /\ \A r \in EvalOutcomes :
                evaluate_answer(<<"Q">>, call.student_answer, call.correct_answer,
                                call.question_type, "x", <<>>, r) = result
    /\ (Returned /\ call.op = "evaluate_quiz_directly"
          /\ OnlyMultipleChoice(call.quiz_questions)) =>
          /\ result.ok
          /\ PromptedItems(call.quiz_questions, call.student_answers) = {}
          /\ evaluate_quiz(call.quiz_questions, call.student_answers, <<>>,
                           AllReplies(call.student_answers, ClientError)) = result

C21_Witness ==
    /\ Returned
    /\ call.op = "evaluate_quiz_directly"
    /\ Len(call.quiz_questions) = 2
    /\ OnlyMultipleChoice(call.quiz_questions)
    /\ result.ok
    /\ result.value.questions_evaluated = 2
    /\ result.value.correct_answers = 1

(* C22: every item of every summary evaluate_quiz returns has a score that *)
(* is an integer from 0 to 100, for multiple_choice and short_answer       *)
(* questions and for every reply of the client.                            *)
C22_ItemScoreInRange ==
    (Returned /\ call.op = "evaluate_quiz_directly" /\ result.ok) =>
        \A j \in 1..Len(result.value.evaluations) :
            result.value.evaluations[j]["score"] \in 0..100

(* What the code does: the score of an item is 100 or 0 for a question    *)
(* evaluated by comparison, 50 for a reply that is not JSON, and the      *)
(* score field of the reply, whatever it is, otherwise.                   *)
ItemScoreFromReply ==
    (Returned /\ call.op = "evaluate_quiz_directly" /\ result.ok) =>
        LET inRange == InRangeItems(call.quiz_questions, call.student_answers)
            prompted == PromptedItems(call.quiz_questions, call.student_answers)
        IN \A j \in 1..Len(result.value.evaluations) :
              \E i \in inRange :
                 /\ result.value.evaluations[j]["question_number"] = call.student_answers[i].key + 1
                 /\ result.value.evaluations[j]["score"] =
                       IF i \notin prompted
                       THEN IF result.value.evaluations[j]["is_correct"]
                            THEN MCQ_CORRECT_SCORE ELSE MCQ_WRONG_SCORE
                       ELSE IF call.replies[i].tag = "object"
                       THEN call.replies[i].fields["score"]
                       ELSE FALLBACK_SCORE

(* The student_answers entries evaluate_quiz evaluates, in the dict's order *)
InRangeEntries(quiz, d) == SelectSeq(d, LAMBDA e : e.key < Len(quiz))

(* The position in d of the entry with this key (keys are distinct) *)
EntryOf(d, key) == CHOOSE i \in 1..Len(d) : d[i].key = key

(* C23: in a summary evaluate_quiz returns, the items are those of the      *)
(* student_answers entries in range, in the dict's order; each item has     *)
(* question_number = key + 1, between 1 and len(quiz), and its verdict is   *)
(* the one for the quiz question at position key (counted from 0): the      *)
(* comparison with that question's correct_answer, or the reply to that     *)
(* question's prompt. Keys are integers >= 0.                                *)
C23_ItemOfKeyedQuestion ==
    (Returned /\ call.op = "evaluate_quiz_directly" /\ result.ok) =>
        LET quiz == call.quiz_questions
            d == call.student_answers
            entries == InRangeEntries(quiz, d)
            evaluations == result.value.evaluations
        IN /\ Len(evaluations) = Len(entries)
           /\ \A j \in 1..Len(evaluations) :
                 LET key == entries[j].key
                     i == EntryOf(d, key)
                     question_data == quiz[key + 1]
                 IN /\ evaluations[j]["question_number"] = key + 1
                    /\ evaluations[j]["question_number"] \in 1..Len(quiz)
                    /\ IF i \in PromptedItems(quiz, d)
                       THEN /\ Get(question_data, "type", "") \notin {"", "multiple_choice"}
                            /\ evaluations[j] =
                                  ("question_number" :> key + 1) @@
                                  (IF call.replies[i].tag = "object"
                                   THEN call.replies[i].fields
                                   ELSE FallbackEvaluation)
                       ELSE /\ evaluations[j]["is_correct"] =
                                  EqualAfterTrim(entries[j].text, question_data["correct_answer"])
                            /\ ~evaluations[j]["is_correct"] =>
                                  evaluations[j]["feedback"].correct_answer =
                                      question_data["correct_answer"]

C23_Witness ==
    /\ Returned
    /\ call.op = "evaluate_quiz_directly"
    /\ call.quiz_questions = <<McqQuestion, UntypedQuestion>>
    /\ Len(call.student_answers) = 2
    /\ call.student_answers[1] = [key |-> 1, text |-> <<"A">>]
    /\ call.student_answers[2].key = 0
    /\ result.ok
    /\ result.value.evaluations[1]["question_number"] = 2
    /\ result.value.evaluations[1]["is_correct"]
    /\ result.value.evaluations[2]["question_number"] = 1

(* The calls the teaching stage made to the client *)
TeachingRequests == {i \in 1..Len(io) : io[i].node = "teaching"}

(* C24: TeachingAgent.execute with intent quiz sets explanation to the       *)
(* placeholder "Quiz mode activated. Proceeding to quiz generation..." and   *)
(* does not call the client (its result is the same whatever the client      *)
(* would answer or raise); with any other intent it calls the client once    *)
(* and explanation is the text of the reply, unchanged.                      *)
C24_TeachingQuizShortcut ==
    (Returned /\ call.op = "TeachingAgent_execute") =>
        IF call.intent = "quiz"
        THEN /\ result.ok
             /\ result.value.explanation = QUIZ_MODE_TEXT
             /\ TeachingRequests = {}
             /\ \A r \in TeachingOutcomes :
                   TeachingAgent_execute(TeachingExecuteState(call), r) = result
        ELSE /\ Cardinality(TeachingRequests) = 1
             /\ Len(io) = 1
             /\ io[1].reply = call.reply
             /\ call.reply # ClientError =>
                   /\ result.ok
                   /\ result.value.explanation = call.reply.content
                   /\ result.value.explanation # QUIZ_MODE_TEXT

C24_Witness ==
    /\ Returned
    /\ call.op = "TeachingAgent_execute"
    /\ call.intent = "quiz"
    /\ call.reply = ClientError
    /\ result.ok
    /\ result.value.explanation = QUIZ_MODE_TEXT
    /\ io = <<>>

----------------------------------------------------------------------------
(* A classifier reply without difficulty *)

(* The classifier answered an object with intent and topic and no difficulty *)
DifficultyMissing ==
    /\ ClassifierAsked
    /\ pc # "query_understanding"
    /\ io[1].reply.tag = "object"
    /\ {"intent", "topic"} \subseteq DOMAIN io[1].reply.fields
    /\ "difficulty" \notin DOMAIN io[1].reply.fields

(* C28: when the classifier's reply is an object with intent and topic and *)
(* without difficulty, query_understanding returns and difficulty is       *)
(* medium.                                                                 *)
C28_MissingDifficultyIsMedium ==
    DifficultyMissing =>
        /\ ~(pc = "raised" /\ Len(visited) = 1)
        /\ state.difficulty = "medium"
        /\ state.intent = io[1].reply.fields["intent"]

(* What the code does: analyze_query reads result['difficulty'] for its log *)
(* line, and the KeyError leaves query_understanding and process_query     *)
MissingDifficultyRaises ==
    DifficultyMissing =>
        /\ pc = "raised"
        /\ err = "KeyError"
        /\ visited = <<"query_understanding">>

----------------------------------------------------------------------------
(* The route after quiz_generation *)

(* C29: after quiz_generation the graph goes to evaluate when student_answers *)
(* is not empty and ends otherwise, whatever the intent: a practice run with  *)
(* student_answers invokes query_understanding, retrieval, teaching,          *)
(* quiz_generation and evaluate, in that order, and evaluate is invoked only  *)
(* after quiz_generation was invoked in the same run.                         *)
C29_RouteAfterQuiz ==
    /\ (Classified /\ state.intent = "practice" /\ state.student_answers # <<>>
          /\ pc \in {"end", "raised"}) =>
            visited = <<"query_understanding", "retrieval", "teaching",
                        "quiz_generation", "evaluate">>
    /\ \A k \in 1..Len(visited) :
          visited[k] = "evaluate" => k > 1 /\ visited[k - 1] = "quiz_generation"

(* What the code does: when quiz_generation returns, the next node is   *)
(* evaluate if student_answers is not empty and END otherwise, for both *)
(* intents that reach it, and evaluate follows quiz_generation only     *)
RouteAfterQuizWhenQuizReturns ==
    /\ (pc = "evaluate") =>
          /\ state.student_answers # <<>>
          /\ visited[Len(visited)] = "quiz_generation"
          /\ state.intent \in {"quiz", "practice"}
    /\ (pc = "end" /\ "quiz_generation" \in Range(visited)) =>
          ("evaluate" \in Range(visited)) = (state.student_answers # <<>>)
    /\ \A k \in 1..Len(visited) :
          visited[k] = "evaluate" => k > 1 /\ visited[k - 1] = "quiz_generation"
    /\ (Classified /\ state.intent = "practice") =>
          IsPrefix(visited, <<"query_understanding", "retrieval", "teaching",
                              "quiz_generation", "evaluate">>)

----------------------------------------------------------------------------
(* The type of a quiz question *)

(* evaluate_quiz on the call's arguments when the client raises on the *)
(* prompt of entry i, if that prompt is sent                            *)
WithClientErrorAt(i) ==
    evaluate_quiz(call.quiz_questions, call.student_answers, <<>>,
                  [call.replies EXCEPT ![i] = ClientError])

(* C30: in evaluate_quiz a question without a type field is evaluated as a *)
(* multiple_choice question is: by comparing the answers after trimming,    *)
(* with no call to the client (the result is the same when the client       *)
(* would raise); a question of any other type is evaluated by the client    *)
(* (an error the client raises for it is the result of evaluate_quiz).      *)
C30_UntypedIsMultipleChoice ==
    (Returned /\ call.op = "evaluate_quiz_directly") =>
        LET quiz == call.quiz_questions
            d == call.student_answers
        IN \A i \in InRangeItems(quiz, d) :
              LET question_data == quiz[d[i].key + 1] IN
              IF "type" \notin DOMAIN question_data \/ question_data["type"] = "multiple_choice"
              THEN /\ WithClientErrorAt(i) = result
                   /\ result.ok =>
                         \E j \in 1..Len(result.value.evaluations) :
                            LET item == result.value.evaluations[j] IN
                            /\ item["question_number"] = d[i].key + 1
                            /\ item["is_correct"] =
                                  EqualAfterTrim(d[i].text, question_data["correct_answer"])
                            /\ item["score"] =
                                  IF item["is_correct"] THEN MCQ_CORRECT_SCORE
                                  ELSE MCQ_WRONG_SCORE
              ELSE /\ ~WithClientErrorAt(i).ok
                   /\ result.ok => WithClientErrorAt(i) = Raise("APIError")
                   /\ i \in PromptedItems(quiz, d)

C30_Witness ==
    /\ Returned
    /\ call.op = "evaluate_quiz_directly"
    /\ call.quiz_questions = <<UntypedQuestion, ShortQuestion>>
    /\ Len(call.student_answers) = 2
    /\ call.student_answers[1] = [key |-> 0, text |-> <<"A">>]
    /\ call.student_answers[2].key = 1
    /\ call.replies[2].tag = "object"
    /\ result.ok
    /\ result.value.evaluations[1]["is_correct"]
    /\ result.value.evaluations[1]["score"] = MCQ_CORRECT_SCORE
    /\ result.value.evaluations[2]["score"] = call.replies[2].fields["score"]

----------------------------------------------------------------------------
(* The quiz flows of the application *)

(* C25: evaluate_quiz_directly runs no stage of the graph (no classification, *)
(* retrieval, explanation or quiz generation: the graph's state, its visited  *)
(* stages and its exchanges with the services are untouched) and its result   *)
(* is the result of evaluate_quiz on the same quiz and answers; in the MCQ    *)
(* quiz mode the stored results are those of the stored questions the         *)
(* learner was shown and of the stored answers, and the quiz is unchanged.    *)
C25_DirectEvaluationBypassesGraph ==
    [][(session'.mcq_results # session.mcq_results /\ session'.mcq_results # PyNone) =>
          /\ pc = "idle"
          /\ UNCHANGED <<pc, state, visited, io, calls, call, vectorstore>>
          /\ session'.mcq_quiz = session.mcq_quiz
          /\ session'.mcq_answers = session.mcq_answers
          /\ Return(session'.mcq_results) =
                evaluate_quiz(session.mcq_quiz.questions, session.mcq_answers, <<>>,
                              AllReplies(session.mcq_answers, ClientError))]_vars

C25_Witness ==
    /\ session.mcq_results # PyNone
    /\ Len(session.mcq_quiz.questions) = 2
    /\ Len(session.mcq_answers) = 2
    /\ session.mcq_answers[1].key = 1
    /\ session.mcq_results.questions_evaluated = 2
    /\ session.mcq_results.correct_answers = 1
    /\ calls = 1

(* C26: every call of process_query on the same instance starts from a new *)
(* state record that holds the call's query and student_answers and, in    *)
(* intent, topic, context, explanation, quiz and evaluation, nothing of an *)
(* earlier call; a field of the state during the call is empty unless a    *)
(* stage of this call has set it.                                          *)
C26_FreshStatePerCall ==
    [][/\ (pc' = "query_understanding" /\ pc # "query_understanding") =>
             /\ state' = [query |-> call'.query,
                          intent |-> "",
                          topic |-> <<>>,
                          difficulty |-> "medium",
                          context |-> <<>>,
                          explanation |-> <<>>,
                          quiz |-> PyList(<<>>),
                          student_answers |-> IF call'.student_answers = PyNone
                                              THEN <<>>
                                              ELSE call'.student_answers.items,
                          evaluation |-> PyNone,
                          messages |-> <<>>]
             /\ visited' = <<>>
             /\ io' = <<>>
       /\ (pc' \in Nodes \cup {"end", "raised"}) =>
             /\ ("quiz_generation" \notin Range(visited')) => state'.quiz = PyList(<<>>)
             /\ ("teaching" \notin Range(visited')) => state'.explanation = <<>>
             /\ ("evaluate" \notin Range(visited')) => state'.evaluation = PyNone
             /\ ("retrieval" \notin Range(visited')) => state'.context = <<>>
             /\ ("query_understanding" \notin Range(visited')) =>
                   state'.intent = "" /\ state'.topic = <<>>]_vars

C26_Witness ==
    /\ calls = 2
    /\ pc = "query_understanding"
    /\ call.handler = "main"
    /\ session.current_quiz # PyNone
    /\ session.current_quiz.items # <<>>
    /\ state.quiz = PyList(<<>>)

(* C27: when the answers to a quiz shown in the Ask-Me-Anything tab are     *)
(* submitted, the quiz the evaluate stage scores them against is the quiz   *)
(* that was shown (the one display_quiz stored as current_quiz).            *)
C27_SubmittedAnswersScoredOnDisplayedQuiz ==
    (pc = "evaluate" /\ call.handler = "submit") =>
        /\ state.quiz = session.current_quiz
        /\ state.quiz = result.value.quiz

(* What the code does: "Submit Answers" runs process_query again, and the *)
(* evaluate stage scores the answers, whose keys are positions in the     *)
(* quiz that was shown, against the quiz this second run generated        *)
SubmitScoresRegeneratedQuiz ==
    (pc = "evaluate" /\ call.handler = "submit") =>
        /\ call.query = result.value.query
        /\ state.student_answers = call.student_answers.items
        /\ \A i \in 1..Len(state.student_answers) :
              state.student_answers[i].key < Len(result.value.quiz.items)
        /\ \E i \in QuizRequests : state.quiz = io[i].reply.fields["questions"]

====
